---- MODULE Spec2Model ----
(***************************************************************************)
(* State-machine model of the chatbot flow editor, src/src/App.tsx.        *)
(*                                                                         *)
(* State is the React state of the App component: nodes, edges,            *)
(* selectedNodeId, reactFlowInstance, the reactFlowWrapper ref and the     *)
(* counter `id` of the closure held by the memoised onDrop callback.       *)
(* Every action is one event handler run to completion (React applies the  *)
(* queued functional updaters before the next event is dispatched).        *)
(*                                                                         *)
(* A node is the record {id, type, position, label}; an edge is            *)
(* {id, source, target}.  The attributes React Flow keeps for rendering    *)
(* only (selected, dragging, measured) are not read by App.tsx and are not *)
(* tracked, so the 'select' and 'dimensions' change kinds, which touch     *)
(* nothing else, have no action here.                                      *)
(*                                                                         *)
(* Three specifications:                                                   *)
(*   Spec         - the handlers as the rendered UI can invoke them: the   *)
(*                  side panel shows either the settings panel or the      *)
(*                  nodes panel, node clicks and connections name rendered *)
(*                  nodes, and the framework delivers remove and position  *)
(*                  changes for rendered elements.                         *)
(*   HandlerSpec  - Spec plus the handlers reached with nothing to act on: *)
(*                  a label edit while no node is active, a drop before    *)
(*                  the canvas is mounted.                                 *)
(*   AnyInputSpec - HandlerSpec plus the other calls the handlers admit    *)
(*                  and the UI does not make: a save while a node is       *)
(*                  active, an edge change-set that adds an item, a drop   *)
(*                  with a foreign payload.                                *)
(***************************************************************************)
EXTENDS Integers, Sequences, FiniteSets, TLC

VARIABLES
  nodes,              \* App.tsx:24  useState<Node[]>([])
  edges,              \* App.tsx:26  useState<Edge[]>([])
  selectedNodeId,     \* App.tsx:28  useState<string | null>(null)
  reactFlowInstance,  \* App.tsx:30  useState<ReactFlowInstance | null>(null)
  reactFlowWrapper,   \* App.tsx:32  useRef<HTMLDivElement | null>(null)
  id,                 \* App.tsx:35  the `id` closed over by the current onDrop
  toast,              \* App.tsx:131/135 title of the toast raised by the last handler
  issued              \* history: the identifiers getId has returned, in order

vars == <<nodes, edges, selectedNodeId, reactFlowInstance, reactFlowWrapper,
          id, toast, issued>>

-----------------------------------------------------------------------------
(* Bounds of the model.                                                    *)

\* getId is called at most MaxId times (the counter is unbounded in the code).
MaxId == 2
\* The edge list holds at most MaxEdges edges.
MaxEdges == 2
\* A change-set names at most MaxChanges elements.
MaxChanges == 2

-----------------------------------------------------------------------------
(* Values.                                                                 *)

NULL == "null"

\* The value of an object-valued expression that is undefined.
Undefined == [undefined |-> TRUE]

\* `node_${k}`
NodeIdOf(k) == "node_" \o ToString(k)

\* Identifiers getId can hand out within the bound: those the endpoints of
\* an added edge item are drawn from.
NodeIds == {NodeIdOf(k) : k \in 0..(MaxId - 1)}

\* App.tsx:40-45
NODE_TYPES == <<[type |-> "default", label |-> "Message Node"]>>

RegisteredTypes == {NODE_TYPES[i].type : i \in 1..Len(NODE_TYPES)}

\* What dataTransfer.getData('application/reactflow') can return on a drop:
\* the payload of a palette drag, "" for a drag that carries no such data,
\* or a string set by a drag source outside the palette.
DropTokens == RegisteredTypes \cup {"", "other"}

\* clientX/clientY of a drop, and left/top of the wrapper's bounding rectangle.
ClientPoints == {[x |-> 120, y |-> 80]}
CanvasOrigins == {[left |-> 20, top |-> 10]}

\* Viewport transforms (pan x, pan y, zoom); the first is the identity.
IdentityTransform == [x |-> 0, y |-> 0, zoom |-> 1]
Transforms == {IdentityTransform, [x |-> 40, y |-> 20, zoom |-> 2]}

\* Position carried by a 'position' change (a node drag).
DragPositions == {[x |-> 20, y |-> 20]}

\* Text typed in the settings panel.
TypedLabels == {"Hello"}

Range(s) == {s[i] : i \in 1..Len(s)}

\* Array.prototype.map
Map(s, F(_)) == [i \in 1..Len(s) |-> F(s[i])]

-----------------------------------------------------------------------------
(* Identifier generator, App.tsx:35-36.                                    *)

\* getId with `id` in place of `id++`.
getIdNoIncrement(i) == [ret |-> NodeIdOf(i), id |-> i]

\* const getId = () => `node_${id++}`: the value returned and the counter after.
getId(i) == [ret |-> NodeIdOf(i), id |-> i + 1]

-----------------------------------------------------------------------------
(* Selection, App.tsx:66.                                                  *)

\* The stored id taken for the active node without looking it up.
FindWithoutLookup(nds, sel) ==
  IF sel # NULL THEN [id |-> sel] ELSE Undefined

\* nodes.find((node) => node.id === selectedNodeId): the first match, or
\* undefined.
Find(nds, sel) ==
  IF \E i \in 1..Len(nds) : nds[i].id = sel
  THEN nds[CHOOSE i \in 1..Len(nds) :
             /\ nds[i].id = sel
             /\ \A j \in 1..(i - 1) : nds[j].id # sel]
  ELSE Undefined

selectedNode == Find(nodes, selectedNodeId)

\* A label edit that inserts the node when no node has the selected id.
handleLabelChangeUpsert(nds, sel, newLabel) ==
  IF \E i \in 1..Len(nds) : nds[i].id = sel
  THEN Map(nds, LAMBDA node : IF node.id = sel
                              THEN [node EXCEPT !.label = newLabel]
                              ELSE node)
  ELSE nds \o <<[id |-> sel, type |-> "default",
                 position |-> [x |-> 0, y |-> 0], label |-> newLabel]>>

\* handleLabelChange, App.tsx:54-63: the updater passed to setNodes.
handleLabelChange(nds, sel, newLabel) ==
  Map(nds, LAMBDA node : IF node.id = sel
                         THEN [node EXCEPT !.label = newLabel]
                         ELSE node)

-----------------------------------------------------------------------------
(* Change-sets, App.tsx:69-82.  applyNodeChanges, applyEdgeChanges and     *)
(* addEdge are @xyflow/react's; each is called with the change-set (or the *)
(* connection) and the one list it updates, nothing else.                  *)

\* The node changes of one gesture on the listed nodes: a delete key press
\* yields a 'remove' per node, a drag a 'position' per node, in list order.
RemoveChanges(elements) ==
  Map(elements, LAMBDA e : [type |-> "remove", id |-> e.id])

PositionChanges(elements, p) ==
  Map(elements, LAMBDA e : [type |-> "position", id |-> e.id, position |-> p])

\* The sub-lists of 1..n of the elements of a list: the elements a gesture
\* can act on together.
SubLists(elements, n) ==
  {SelectSeq(elements, LAMBDA e : e.id \in S) :
     S \in {T \in SUBSET {elements[i].id : i \in 1..Len(elements)} :
              T # {} /\ Cardinality(T) <= n}}

\* An edge the edge list can hold: addEdge's id for a connection s -> t.
getEdgeId(s, t) == "xy-edge__" \o s \o "-" \o t

EdgeItems == {[id |-> getEdgeId(s, t), source |-> s, target |-> t] :
                s \in NodeIds, t \in NodeIds}

EdgeAddChanges == {[type |-> "add", item |-> e] : e \in EdgeItems}

\* Ids a change-set removes.
RemovedIds(changes) ==
  {changes[i].id : i \in {j \in 1..Len(changes) : changes[j].type = "remove"}}

\* applyChange: one change applied to the element it names.
applyChange(change, element) ==
  IF change.type = "position"
  THEN [element EXCEPT !.position = change.position]
  ELSE element

\* The changes naming one element, applied in the order of the change-set.
RECURSIVE applyChangesTo(_, _)
applyChangesTo(changes, element) ==
  IF changes = <<>> THEN element
  ELSE applyChangesTo(Tail(changes),
                      IF Head(changes).type # "add" /\ Head(changes).id = element.id
                      THEN applyChange(Head(changes), element)
                      ELSE element)

\* The items of the 'add' changes, in the order of the change-set.
RECURSIVE AddedItems(_)
AddedItems(changes) ==
  IF changes = <<>> THEN <<>>
  ELSE IF Head(changes).type = "add"
       THEN <<Head(changes).item>> \o AddedItems(Tail(changes))
       ELSE AddedItems(Tail(changes))

\* applyChanges(changes, elements): an element named by a 'remove' is left
\* out, every other element gets its changes, added items go to the end.
applyChanges(changes, elements) ==
  Map(SelectSeq(elements, LAMBDA e : e.id \notin RemovedIds(changes)),
      LAMBDA e : applyChangesTo(changes, e))
  \o AddedItems(changes)

\* Every change of the change-set applied to one element, whatever id the
\* change names.
RECURSIVE applyEveryChangeTo(_, _)
applyEveryChangeTo(changes, element) ==
  IF changes = <<>> THEN element
  ELSE applyEveryChangeTo(Tail(changes), applyChange(Head(changes), element))

\* applyNodeChanges that does not match a change's id against the node's.
applyNodeChangesUnkeyed(changes, nds) ==
  Map(SelectSeq(nds, LAMBDA e : e.id \notin RemovedIds(changes)),
      LAMBDA e : applyEveryChangeTo(changes, e))

\* App.tsx:70  applyNodeChanges(changes, nds)
applyNodeChanges(changes, nds) == applyChanges(changes, nds)

\* App.tsx:75  applyEdgeChanges(changes, eds): the node list is not passed.
applyEdgeChanges(changes, eds) == applyChanges(changes, eds)

\* connectionExists: an edge with the same source and target (the default
\* node type has one source and one target handle).
connectionExists(edge, eds) ==
  \E i \in 1..Len(eds) : eds[i].source = edge.source /\ eds[i].target = edge.target

\* addEdge without the check for an existing connection.
addEdgeAlways(params, eds) ==
  eds \o <<[id |-> getEdgeId(params.source, params.target),
            source |-> params.source, target |-> params.target]>>

\* App.tsx:80  addEdge(params, eds)
addEdge(params, eds) ==
  LET edge == [id |-> getEdgeId(params.source, params.target),
               source |-> params.source, target |-> params.target]
  IN  IF connectionExists(edge, eds) THEN eds ELSE eds \o <<edge>>

-----------------------------------------------------------------------------
(* Drop, App.tsx:85-114.                                                   *)

\* reactFlowInstance.screenToFlowPosition(p): subtracts the bounding
\* rectangle of the flow's own DOM node, then undoes pan and zoom.
screenToFlowPosition(p, domOrigin, tr) ==
  [x |-> ((p.x - domOrigin.left) - tr.x) \div tr.zoom,
   y |-> ((p.y - domOrigin.top) - tr.y) \div tr.zoom]

\* App.tsx:89  reactFlowWrapper.current?.getBoundingClientRect()
reactFlowBounds(wrapper, origin) == IF wrapper = NULL THEN Undefined ELSE origin

\* The drop position without the check of the flow instance: the corrected
\* pointer position stands in when there is no instance.
DropPositionWithoutInstance(bounds, instance, client, tr) ==
  IF bounds = Undefined THEN Undefined
  ELSE IF instance = NULL
       THEN [x |-> client.x - bounds.left, y |-> client.y - bounds.top]
       ELSE screenToFlowPosition([x |-> client.x - bounds.left,
                                  y |-> client.y - bounds.top], bounds, tr)

\* App.tsx:96-101  reactFlowBounds && reactFlowInstance?.screenToFlowPosition(..)
DropPosition(bounds, instance, client, tr) ==
  IF bounds = Undefined \/ instance = NULL THEN Undefined
  ELSE screenToFlowPosition([x |-> client.x - bounds.left,
                             y |-> client.y - bounds.top], bounds, tr)

\* A node labelled with the number of its own id.
newNodeOwnIdLabel(type, position, i) ==
  [id |-> getId(i).ret, type |-> type, position |-> position,
   label |-> ToString(i) \o " Node"]

\* App.tsx:104-109  the node built by a drop: getId() runs first, the label
\* reads the counter after it.
newNode(type, position, i) ==
  [id |-> getId(i).ret, type |-> type, position |-> position,
   label |-> ToString(getId(i).id) \o " Node"]

-----------------------------------------------------------------------------
(* Save, App.tsx:123-139.                                                  *)

FailedTitle == "Failed to save the flow"
SavedTitle == "Flow saved successfully"

\* App.tsx:125-127
nodesWithNoIncoming(nds, eds) ==
  SelectSeq(nds, LAMBDA node :
                   ~ \E i \in 1..Len(eds) : eds[i].target = node.id)

\* handleSave with `>= 1` for the second `> 1`.
handleSaveToastAtLeastOne(nds, eds) ==
  IF Len(nds) > 1 /\ Len(nodesWithNoIncoming(nds, eds)) >= 1
  THEN FailedTitle
  ELSE SavedTitle

\* handleSave that accepts exactly one node without an incoming edge.
handleSaveToastExactlyOne(nds, eds) ==
  IF Len(nds) > 1 /\ Len(nodesWithNoIncoming(nds, eds)) # 1
  THEN FailedTitle
  ELSE SavedTitle

\* App.tsx:130-138  the title of the toast handleSave raises.
handleSaveToast(nds, eds) ==
  IF Len(nds) > 1 /\ Len(nodesWithNoIncoming(nds, eds)) > 1
  THEN FailedTitle
  ELSE SavedTitle

-----------------------------------------------------------------------------
(* The state machine.                                                      *)

Init ==
  /\ nodes = <<>>
  /\ edges = <<>>
  /\ selectedNodeId = NULL
  /\ reactFlowInstance = NULL
  /\ reactFlowWrapper = NULL
  /\ id = 0
  /\ toast = "none"
  /\ issued = <<>>

\* Commit of the first render: the ref is attached to the wrapper div
\* (App.tsx:153).
Mount ==
  /\ reactFlowWrapper = NULL
  /\ reactFlowWrapper' = "div"
  /\ toast' = "none"
  /\ UNCHANGED <<nodes, edges, selectedNodeId, reactFlowInstance, id, issued>>

\* An onInit that fires on later renders too, so that onDrop is rebuilt over
\* a fresh `let id = 0`.
OnInitRepeated ==
  /\ reactFlowWrapper # NULL
  /\ reactFlowInstance' = "instance"
  /\ id' = 0
  /\ toast' = "none"
  /\ UNCHANGED <<nodes, edges, selectedNodeId, reactFlowWrapper, issued>>

\* App.tsx:160  onInit={setReactFlowInstance}, called once by the mounted
\* flow.  reactFlowInstance is onDrop's only dependency (App.tsx:113): the
\* re-render builds a new onDrop over that render's own `let id = 0`.
OnInit ==
  /\ reactFlowWrapper # NULL
  /\ reactFlowInstance = NULL
  /\ reactFlowInstance' = "instance"
  /\ id' = 0
  /\ toast' = "none"
  /\ UNCHANGED <<nodes, edges, selectedNodeId, reactFlowWrapper, issued>>

\* App.tsx:48-51  onNodeClick(event, node)
onNodeClick(node) ==
  /\ selectedNodeId' = node.id
  /\ toast' = "none"
  /\ UNCHANGED <<nodes, edges, reactFlowInstance, reactFlowWrapper, id, issued>>

\* A click on a rendered node.
NodeClick == \E i \in 1..Len(nodes) : onNodeClick(nodes[i])

\* App.tsx:54-63  handleLabelChange(e), e.target.value = newLabel
LabelChange(newLabel) ==
  /\ nodes' = handleLabelChange(nodes, selectedNodeId, newLabel)
  /\ toast' = "none"
  /\ UNCHANGED <<edges, selectedNodeId, reactFlowInstance, reactFlowWrapper,
                 id, issued>>

\* Typing in the settings panel's input, rendered while selectedNode is
\* defined (App.tsx:178-188).
PanelLabelChange ==
  /\ selectedNode # Undefined
  /\ \E l \in TypedLabels : LabelChange(l)

\* App.tsx:191  the "Save name" button: setSelectedNodeId(null)
ClearSelection ==
  /\ selectedNode # Undefined
  /\ selectedNodeId' = NULL
  /\ toast' = "none"
  /\ UNCHANGED <<nodes, edges, reactFlowInstance, reactFlowWrapper, id, issued>>

\* onNodesChange that also clears the selection when its node is removed.
onNodesChangeClearing(changes) ==
  /\ nodes' = applyNodeChanges(changes, nodes)
  /\ selectedNodeId' = IF selectedNodeId \in RemovedIds(changes)
                       THEN NULL ELSE selectedNodeId
  /\ toast' = "none"
  /\ UNCHANGED <<edges, reactFlowInstance, reactFlowWrapper, id, issued>>

\* App.tsx:69-72  onNodesChange(changes)
onNodesChange(changes) ==
  /\ nodes' = applyNodeChanges(changes, nodes)
  /\ toast' = "none"
  /\ UNCHANGED <<edges, selectedNodeId, reactFlowInstance, reactFlowWrapper,
                 id, issued>>

\* The framework's change-sets name rendered nodes.
NodesRemove ==
  \E sub \in SubLists(nodes, MaxChanges) : onNodesChange(RemoveChanges(sub))

NodesDrag ==
  \E sub \in SubLists(nodes, MaxChanges), p \in DragPositions :
    onNodesChange(PositionChanges(sub, p))

\* App.tsx:74-77  onEdgesChange(changes)
onEdgesChange(changes) ==
  /\ edges' = applyEdgeChanges(changes, edges)
  /\ toast' = "none"
  /\ UNCHANGED <<nodes, selectedNodeId, reactFlowInstance, reactFlowWrapper,
                 id, issued>>

\* The framework's edge change-sets remove rendered edges.
EdgesRemove ==
  \E sub \in SubLists(edges, MaxChanges) : onEdgesChange(RemoveChanges(sub))

\* App.tsx:79-82  onConnect(params)
onConnect(params) ==
  /\ edges' = addEdge(params, edges)
  /\ toast' = "none"
  /\ UNCHANGED <<nodes, selectedNodeId, reactFlowInstance, reactFlowWrapper,
                 id, issued>>

\* A connection drawn between the handles of two rendered nodes.
Connect ==
  /\ Len(edges) < MaxEdges
  /\ \E i \in 1..Len(nodes), j \in 1..Len(nodes) :
       onConnect([source |-> nodes[i].id, target |-> nodes[j].id])

\* onDrop that writes the node list of the render it was created in (the
\* list is empty when reactFlowInstance is set) extended by the new node,
\* in place of the functional update of App.tsx:111.
onDropFromSnapshot(token, client, origin, tr) ==
  LET bounds   == reactFlowBounds(reactFlowWrapper, origin)
      position == DropPosition(bounds, reactFlowInstance, client, tr)
  IN  /\ toast' = "none"
      /\ IF token = "" \/ position = Undefined
         THEN UNCHANGED <<nodes, id, issued>>
         ELSE /\ id < MaxId
              /\ nodes' = <<newNode(token, position, id)>>
              /\ id' = getId(id).id
              /\ issued' = Append(issued, getId(id).ret)
      /\ UNCHANGED <<edges, selectedNodeId, reactFlowInstance, reactFlowWrapper>>

\* App.tsx:85-114  onDrop(event): token is the drag payload, client the
\* pointer, origin the wrapper's bounding rectangle, tr the viewport transform.
onDrop(token, client, origin, tr) ==
  LET bounds   == reactFlowBounds(reactFlowWrapper, origin)
      position == DropPosition(bounds, reactFlowInstance, client, tr)
  IN  /\ toast' = "none"
      /\ IF token = "" \/ position = Undefined
         THEN UNCHANGED <<nodes, id, issued>>
         ELSE /\ id < MaxId
              /\ nodes' = nodes \o <<newNode(token, position, id)>>
              /\ id' = getId(id).id
              /\ issued' = Append(issued, getId(id).ret)
      /\ UNCHANGED <<edges, selectedNodeId, reactFlowInstance, reactFlowWrapper>>

\* App.tsx:214-217  onDragStart on a palette entry: the payload it sets.
onDragStart(entry) == entry.type

\* A palette entry dragged onto the canvas; the palette is rendered while
\* selectedNode is undefined (App.tsx:196-224).
PaletteDrop ==
  /\ reactFlowWrapper # NULL
  /\ selectedNode = Undefined
  /\ \E k \in 1..Len(NODE_TYPES), c \in ClientPoints, o \in CanvasOrigins,
        tr \in Transforms :
       onDrop(onDragStart(NODE_TYPES[k]), c, o, tr)

\* Something dragged onto the canvas that carries no
\* 'application/reactflow' data (a file, a text selection).
ExternalDrop ==
  /\ reactFlowWrapper # NULL
  /\ \E c \in ClientPoints, o \in CanvasOrigins, tr \in Transforms :
       onDrop("", c, o, tr)

\* handleSave that also closes the selection, as the "Save name" button does.
handleSaveAndDeselect ==
  /\ toast' = handleSaveToast(nodes, edges)
  /\ selectedNodeId' = NULL
  /\ UNCHANGED <<nodes, edges, reactFlowInstance, reactFlowWrapper, id, issued>>

\* App.tsx:123-139  handleSave()
handleSave ==
  /\ toast' = handleSaveToast(nodes, edges)
  /\ UNCHANGED <<nodes, edges, selectedNodeId, reactFlowInstance,
                 reactFlowWrapper, id, issued>>

\* A "Save Flow" button rendered whatever the selection.
PanelSaveUngated ==
  /\ reactFlowWrapper # NULL
  /\ handleSave

\* The "Save Flow" button, rendered while selectedNode is undefined
\* (App.tsx:196-208).
PanelSave ==
  /\ reactFlowWrapper # NULL
  /\ selectedNode = Undefined
  /\ handleSave

Next ==
  \/ Mount
  \/ OnInit
  \/ NodeClick
  \/ PanelLabelChange
  \/ ClearSelection
  \/ NodesRemove
  \/ NodesDrag
  \/ EdgesRemove
  \/ Connect
  \/ PaletteDrop
  \/ ExternalDrop
  \/ PanelSave

Spec == Init /\ [][Next]_vars

-----------------------------------------------------------------------------
(* The handlers reached with nothing to act on.                            *)

\* handleLabelChange while no node is active.
StaleLabelChange ==
  /\ selectedNode = Undefined
  /\ \E l \in TypedLabels : LabelChange(l)

\* onDrop before the wrapper is mounted.
EarlyDrop ==
  /\ reactFlowWrapper = NULL
  /\ \E token \in DropTokens, c \in ClientPoints, o \in CanvasOrigins,
        tr \in Transforms :
       onDrop(token, c, o, tr)

HandlerNext ==
  \/ Next
  \/ StaleLabelChange
  \/ EarlyDrop

HandlerSpec == Init /\ [][HandlerNext]_vars

-----------------------------------------------------------------------------
(* The handlers on calls the UI does not make.                             *)

\* handleSave while a node is active.
SaveWhileSelected ==
  /\ selectedNode # Undefined
  /\ handleSave

\* onEdgesChange with a change-set that adds an item.
EdgesAdd ==
  /\ Len(edges) < MaxEdges
  /\ \E c \in EdgeAddChanges : onEdgesChange(<<c>>)

\* onDrop with a payload set by a drag source other than the palette.
ForeignDrop ==
  /\ reactFlowWrapper # NULL
  /\ \E token \in DropTokens \ (RegisteredTypes \cup {""}), c \in ClientPoints,
        o \in CanvasOrigins, tr \in Transforms :
       onDrop(token, c, o, tr)

AnyInputNext ==
  \/ HandlerNext
  \/ SaveWhileSelected
  \/ EdgesAdd
  \/ ForeignDrop

AnyInputSpec == Init /\ [][AnyInputNext]_vars

-----------------------------------------------------------------------------
(* Properties.                                                             *)

\* Ids of the nodes in the node list.
PresentIds == {nodes[i].id : i \in 1..Len(nodes)}

\* Positions in the node list of the nodes no edge targets.
RootCandidates ==
  {i \in 1..Len(nodes) : \A j \in 1..Len(edges) : edges[j].target # nodes[i].id}

\* A save has just been handled: only handleSave raises a toast.
SaveReported == toast # "none"

\* C1: a save reports failure if and only if the graph has more than one
\* node and more than one node that no edge targets; otherwise it reports
\* success.
C1_SaveFailsIffManyRoots ==
  SaveReported =>
    /\ toast \in {FailedTitle, SavedTitle}
    /\ toast = FailedTitle <=>
         (Len(nodes) > 1 /\ Cardinality(RootCandidates) > 1)

\* C1 witness: a save of a graph of two nodes has reported failure.
C1_Witness ==
  /\ toast = FailedTitle
  /\ Len(nodes) > 1
  /\ Cardinality(RootCandidates) > 1

\* C2: in every reachable state every edge's source and target name a node
\* in the node list.
C2_NoDanglingEdges ==
  \A j \in 1..Len(edges) :
    edges[j].source \in PresentIds /\ edges[j].target \in PresentIds

\* C3: the identifiers handed out by getId are node_0, node_1, ... in this
\* order (distinct, increasing from 0), and no two nodes in the list share
\* an id.
C3_IdsDistinctIncreasing ==
  /\ \A k \in 1..Len(issued) : issued[k] = NodeIdOf(k - 1)
  /\ \A k \in 1..Len(issued), l \in 1..Len(issued) :
       k # l => issued[k] # issued[l]
  /\ \A i \in 1..Len(nodes), j \in 1..Len(nodes) :
       i # j => nodes[i].id # nodes[j].id
  /\ PresentIds \subseteq Range(issued)

\* C3 witness: two identifiers were handed out, the first node was removed
\* and the second is in the list.
C3_Witness ==
  /\ Len(issued) >= 2
  /\ Len(nodes) = 1
  /\ nodes[1].id = issued[2]

\* C4: the active node is defined exactly when the stored selection id names
\* a node in the node list, and is then a node with that id.
C4_ActiveIffPresent ==
  /\ (selectedNode # Undefined) <=> (selectedNodeId \in PresentIds)
  /\ selectedNode # Undefined => selectedNode.id = selectedNodeId
  /\ selectedNode # Undefined => selectedNode \in Range(nodes)

\* C4 witness: the stored selection id is one getId handed out, its node has
\* been removed with an edited node left behind, and no node is active.
C4_Witness ==
  /\ selectedNodeId \in Range(issued)
  /\ selectedNodeId \notin PresentIds
  /\ selectedNode = Undefined
  /\ \E i \in 1..Len(nodes) : nodes[i].label \in TypedLabels

\* C5 as stated: if the selection is set it names a node in the node list.
C5_SelectionNamesPresentNode ==
  selectedNodeId # NULL => selectedNodeId \in PresentIds

\* C5 amended: a step that removes the active node leaves the stored
\* selection id as it is and the active node resolves to none.
C5_RemovalKeepsIdResolvesNone ==
  [][(selectedNode # Undefined /\ selectedNodeId \notin PresentIds')
       => (selectedNodeId' = selectedNodeId /\ selectedNode' = Undefined)]_vars

\* C5 witness: the stored selection id names a removed node.
C5_Witness ==
  /\ selectedNodeId \in Range(issued)
  /\ selectedNodeId \notin PresentIds
  /\ Len(nodes) >= 1

\* C6: a graph of two or more nodes, each the target of an edge, passes the
\* save validation.
C6_NoRootsPasses ==
  (SaveReported /\ Len(nodes) >= 2 /\ RootCandidates = {})
    => toast = SavedTitle

\* C6 witness: a save of a two-node graph without a root has reported
\* success.
C6_Witness ==
  /\ toast = SavedTitle
  /\ Len(nodes) >= 2
  /\ RootCandidates = {}

\* An edge change-set that adds one item with a missing endpoint.
AddsEdgeWithMissingEndpoint ==
  \E c \in EdgeAddChanges :
    /\ c.item.source \notin PresentIds \/ c.item.target \notin PresentIds
    /\ onEdgesChange(<<c>>)

\* C7: an edge change-set that adds an edge whose source or target is not in
\* the node list leaves the edge list unchanged.
C7_AddWithMissingEndpointDropped ==
  [][AddsEdgeWithMissingEndpoint => edges' = edges]_vars

\* The effect of a label edit on the node at position i.
LabelEditOn(i, newLabel) ==
  IF nodes[i].id = selectedNodeId
  THEN /\ nodes'[i].label = newLabel
       /\ nodes'[i].id = nodes[i].id
       /\ nodes'[i].type = nodes[i].type
       /\ nodes'[i].position = nodes[i].position
  ELSE nodes'[i] = nodes[i]

\* C8: a label edit replaces the label of exactly the node whose id is the
\* selection and leaves every other node, the edges and the selection
\* unchanged; without such a node it changes nothing.
C8_LabelEditFrame ==
  [][\A l \in TypedLabels :
       LabelChange(l) =>
         /\ Len(nodes') = Len(nodes)
         /\ \A i \in 1..Len(nodes) : LabelEditOn(i, l)
         /\ edges' = edges
         /\ selectedNodeId' = selectedNodeId
         /\ selectedNode = Undefined => nodes' = nodes]_vars

\* C8 witness: the selected node carries the typed label and another node
\* keeps its own.
C8_Witness ==
  /\ selectedNode # Undefined
  /\ selectedNode.label \in TypedLabels
  /\ \E i \in 1..Len(nodes) : nodes[i].label \notin TypedLabels

\* A drop handled while the wrapper or the flow instance is missing, or
\* with an empty payload.
AbandonedDrop ==
  \E token \in DropTokens, c \in ClientPoints, o \in CanvasOrigins,
     tr \in Transforms :
    /\ reactFlowWrapper = NULL \/ reactFlowInstance = NULL \/ token = ""
    /\ onDrop(token, c, o, tr)

\* C9: a drop that arrives without canvas bounds, without a flow instance or
\* without a node-type token creates no node: nodes, edges and selection
\* are as before, and no identifier is used.
C9_AbandonedDropCreatesNothing ==
  [][AbandonedDrop =>
       /\ nodes' = nodes
       /\ edges' = edges
       /\ selectedNodeId' = selectedNodeId
       /\ issued' = issued]_vars

\* C9 witness: the wrapper is mounted and can receive a drop, the flow
\* instance is not there yet, and no node and no identifier exists.
C9_Witness ==
  /\ reactFlowWrapper # NULL
  /\ reactFlowInstance = NULL
  /\ nodes = <<>>
  /\ issued = <<>>

\* C10: a save, passing or failing, leaves nodes, edges and selection
\* unchanged, and after it the editing handlers are enabled as before.
C10_SaveChangesNothing ==
  /\ [][SaveReported' =>
          /\ nodes' = nodes
          /\ edges' = edges
          /\ selectedNodeId' = selectedNodeId]_vars
  /\ [](SaveReported =>
          /\ nodes # <<>> => ENABLED NodeClick /\ ENABLED NodesRemove
                             /\ ENABLED NodesDrag
          /\ (nodes # <<>> /\ Len(edges) < MaxEdges) => ENABLED Connect
          /\ selectedNode = Undefined => ENABLED PanelSave
          /\ selectedNode # Undefined => ENABLED PanelLabelChange)

\* C10 witness: a save has been reported on a graph with a node and an
\* edge while a stale selection id is stored.
C10_Witness ==
  /\ SaveReported
  /\ selectedNodeId # NULL
  /\ nodes # <<>>
  /\ edges # <<>>

\* A drop under the identity transform that appends a node.
IdentityDropAt(c, o) ==
  /\ Len(nodes') = Len(nodes) + 1
  /\ \E token \in DropTokens : onDrop(token, c, o, IdentityTransform)

\* C11: under the identity viewport transform a drop at viewport point p
\* with canvas origin o creates a node at p - o; for p = (120, 80) and
\* o = (20, 10) the position is (100, 70).
C11_DropPositionIsPointMinusOrigin ==
  [][\A c \in ClientPoints, o \in CanvasOrigins :
       IdentityDropAt(c, o) =>
         nodes'[Len(nodes')].position =
           [x |-> c.x - o.left, y |-> c.y - o.top]]_vars

\* The edge list has an edge from s to t.
Connected(s, t) ==
  \E j \in 1..Len(edges) : edges[j].source = s /\ edges[j].target = t

\* C12 as stated: in every state a connect between two rendered nodes
\* would add an edge to the edge list, also when they are connected already.
C12_ConnectAlwaysAddsEdge ==
  \A s \in PresentIds, t \in PresentIds :
    Len(addEdge([source |-> s, target |-> t], edges)) = Len(edges) + 1

\* C12 amended: connect(s, t) appends one edge s -> t, its id derived from
\* the two endpoints, unless the list already has an edge from s to t, and
\* then the list is unchanged; s = t is allowed.
C12_ConnectAddsUnlessConnected ==
  [][\A s \in PresentIds, t \in PresentIds :
       onConnect([source |-> s, target |-> t]) =>
         IF Connected(s, t)
         THEN edges' = edges
         ELSE /\ Len(edges') = Len(edges) + 1
              /\ SubSeq(edges', 1, Len(edges)) = edges
              /\ edges'[Len(edges')] =
                   [id |-> getEdgeId(s, t), source |-> s, target |-> t]]_vars

\* C12 witness: the edge list holds a self-loop and an edge between two
\* different nodes.
C12_Witness ==
  /\ \E j \in 1..Len(edges) : edges[j].source = edges[j].target
  /\ \E j \in 1..Len(edges) : edges[j].source # edges[j].target

\* C13: in every reachable state every node in the node list has a type of
\* the registered set of node types, whatever token a drop carries.
C13_NodeTypesRegistered ==
  \A i \in 1..Len(nodes) : nodes[i].type \in RegisteredTypes

\* A node found in the list before and after a step has the type it had.
TypeKeptById ==
  \A i \in 1..Len(nodes), j \in 1..Len(nodes') :
    nodes'[j].id = nodes[i].id => nodes'[j].type = nodes[i].type

\* A step that removes no node leaves every node at its place in the list
\* with its id and type.
IdKeptInPlace ==
  Len(nodes') >= Len(nodes) =>
    \A i \in 1..Len(nodes) :
      nodes'[i].id = nodes[i].id /\ nodes'[i].type = nodes[i].type

\* The nodes at their places, unchanged.
SameAt(i) == i <= Len(nodes') /\ nodes'[i] = nodes[i]

\* C14: across every operation a node in the list before and after keeps
\* its id and type, and a node the operation does not name is unchanged:
\* a label edit names the selected node, a change-set the nodes of its
\* changes, a drop the node it creates, any other operation no node.
C14_NodeIdentityAndFrame ==
  [][/\ TypeKeptById
     /\ IdKeptInPlace
     /\ \A l \in TypedLabels :
          LabelChange(l) =>
            \A i \in 1..Len(nodes) : nodes[i].id # selectedNodeId => SameAt(i)
     /\ \A sub \in SubLists(nodes, MaxChanges) :
          (\/ onNodesChange(RemoveChanges(sub))
           \/ \E p \in DragPositions : onNodesChange(PositionChanges(sub, p)))
            => \A i \in 1..Len(nodes) :
                 nodes[i] \notin Range(sub) => nodes[i] \in Range(nodes')
     /\ issued' # issued => \A i \in 1..Len(nodes) : SameAt(i)
     /\ (edges' # edges \/ selectedNodeId' # selectedNodeId \/ SaveReported')
          => nodes' = nodes]_vars

\* C14 witness: one node carries a typed label, another keeps its own label
\* at another position.
C14_Witness ==
  \E i \in 1..Len(nodes), j \in 1..Len(nodes) :
    /\ nodes[i].label \in TypedLabels
    /\ nodes[j].label \notin TypedLabels
    /\ nodes[i].position # nodes[j].position


\* C15: the node a drop creates with id node_k is labelled "<k+1> Node",
\* the value of the identifier counter after the node's id was taken.
C15_DefaultLabelIsNextIdentifier ==
  [][issued' # issued =>
       /\ nodes'[Len(nodes')].id = NodeIdOf(id)
       /\ id' = id + 1
       /\ nodes'[Len(nodes')].label = ToString(id') \o " Node"
       /\ nodes'[Len(nodes')].label # ToString(id) \o " Node"]_vars

\* C15 witness: node_1 is in the list under its default label "2 Node".
C15_Witness ==
  \E i \in 1..Len(nodes) :
    nodes[i].id = NodeIdOf(1) /\ nodes[i].label = "2 Node"

\* A drop with a token, the canvas mounted and the flow instance set.
SuccessfulDrop(token, c, o, tr) ==
  /\ token # ""
  /\ reactFlowWrapper # NULL
  /\ reactFlowInstance # NULL
  /\ onDrop(token, c, o, tr)

\* C16: a successful drop appends exactly one node to the end of the node
\* list: the count grows by one, the nodes present before keep their order
\* and contents, so the nodes of earlier drops stay in the list, and edges
\* and selection are unchanged.
C16_DropAppendsOneNode ==
  [][\A token \in DropTokens, c \in ClientPoints, o \in CanvasOrigins,
        tr \in Transforms :
       SuccessfulDrop(token, c, o, tr) =>
         /\ Len(nodes') = Len(nodes) + 1
         /\ SubSeq(nodes', 1, Len(nodes)) = nodes
         /\ nodes'[Len(nodes')].id = NodeIdOf(id)
         /\ nodes'[Len(nodes')].id \notin PresentIds
         /\ edges' = edges
         /\ selectedNodeId' = selectedNodeId]_vars

\* C16 witness: two drops handled one after the other, both nodes in the
\* list in the order of the drops.
C16_Witness ==
  /\ Len(issued) = 2
  /\ Len(nodes) = 2
  /\ nodes[1].id = issued[1]
  /\ nodes[2].id = issued[2]
  /\ edges = <<>>


\* Some node's label differs after the step.
LabelEdited ==
  /\ Len(nodes') = Len(nodes)
  /\ \E i \in 1..Len(nodes) : nodes'[i].label # nodes[i].label

\* C17: save and palette drag are offered, and a save or a palette drop is
\* processed, only while the active node is none; label edit and the explicit
\* clear are offered, and processed, only while the active node is a present
\* node, and the label edited is that of the node the selection names.
C17_PanelGating ==
  [][/\ (ENABLED PanelSave \/ ENABLED PaletteDrop) => selectedNode = Undefined
     /\ (ENABLED PanelLabelChange \/ ENABLED ClearSelection)
          => selectedNodeId \in PresentIds
     /\ SaveReported' => selectedNode = Undefined
     /\ issued' # issued => selectedNode = Undefined
     /\ LabelEdited =>
          /\ selectedNodeId \in PresentIds
          /\ \A i \in 1..Len(nodes) :
               nodes'[i].label # nodes[i].label => nodes[i].id = selectedNodeId
     /\ (selectedNodeId # NULL /\ selectedNodeId' = NULL)
          => selectedNodeId \in PresentIds]_vars

\* C17 witness: a save was processed while the stored selection names a
\* removed node, after a label was edited from the panel.
C17_Witness ==
  /\ toast = SavedTitle
  /\ selectedNodeId \in Range(issued)
  /\ selectedNode = Undefined
  /\ \E i \in 1..Len(nodes) : nodes[i].label \in TypedLabels


\* The stored selection names no node of the list.
StaleSelection == selectedNodeId # NULL /\ selectedNode = Undefined

\* C18: while the stored selection id names a removed node, every step that
\* keeps the stored id (every drop, connect, change-set and save; a node
\* click replaces it) leaves the active node none, and no node created
\* later has the removed node's id.
C18_StaleSelectionStaysInactive ==
  [][(StaleSelection /\ selectedNodeId' = selectedNodeId) =>
       /\ selectedNode' = Undefined
       /\ \A k \in (Len(issued) + 1)..Len(issued') :
            issued'[k] # selectedNodeId]_vars

\* C18 witness: the first node was selected and removed, and a node created
\* later is in the list while the stored id is still the removed node's.
C18_Witness ==
  /\ Len(issued) = 2
  /\ selectedNodeId = issued[1]
  /\ Len(nodes) = 1
  /\ nodes[1].id = issued[2]
  /\ selectedNode = Undefined

====
